---- MODULE Spec2Model ----
(***************************************************************************)
(* Entity / component lifecycle engine of phatty.                          *)
(*                                                                         *)
(*   EntitySystem  (src/src/EntitySystem.ts)   tracked entities, relays    *)
(*                                             the host scene signals      *)
(*   Entity        (src/src/Entity.ts)         owns one ComponentSystem    *)
(*   ComponentSystem (src/unnamed/part_004)    type -> instance map,       *)
(*                                             cached ordered list         *)
(*   Component     (src/src/Component.ts)      hooks, created flag,        *)
(*                                             construction context        *)
(*                                                                         *)
(* Entities and component instances are object references; they are        *)
(* modelled as numbers handed out by nextEntity / nextInstance, 0 standing  *)
(* for undefined.  A host signal is dispatched hook call by hook call,      *)
(* every other operation is one step.                                       *)
(***************************************************************************)
EXTENDS Integers, Sequences, FiniteSets, TLC

\* ------------------------------------------------------------------ bounds
MaxEntities == 2
MaxInstances == 2
MaxCount == 2
MaxHookInstances == 1
MaxHookOps == 2
MaxConditions == 2
MaxNesting == 2

\* ------------------------------------------------- component classes in use
\* Three component classes as the tests and the README declare them:
\*   A : class A extends Component { priority = -1 }
\*   B : class B extends Component { priority = 1 }
\*   X : @component({ priority: 1 })
\*       class X extends Component { priority = 1; required = [A] }
Ctors == {"A", "B", "X"}

\* Component.priority, the instance field a class overrides (default 0)
priority(ctor) ==
  CASE ctor = "A" -> 0 - 1
    [] ctor = "B" -> 1
    [] ctor = "X" -> 1
    [] OTHER -> 0

\* Component.required, the instance field a class overrides (default [])
required(ctor) ==
  IF ctor = "X" THEN {"A"} ELSE {}

\* getComponentMeta(ctor): the metadata the @component decorator stored,
\* [has |-> FALSE] standing for undefined
getComponentMeta(ctor) ==
  IF ctor = "X" THEN [has |-> TRUE, priority |-> 1]
                ELSE [has |-> FALSE, priority |-> 0]

Signals == {"update", "sleep", "wake", "pause", "resume", "destroy", "shutdown"}
HookSignals == {"update", "sleep", "wake", "pause", "resume"}

EntityIds == 1..MaxEntities
InstanceIds == 1..(MaxInstances + MaxHookInstances)

VARIABLES
  entities,              \* EntitySystem.entities : array of tracked entities
  nextEntity,            \* number of Entity objects constructed so far
  componentsMap,         \* per entity: Map ctor -> instance, in insertion order
  componentsList,        \* per entity: cached ordered array of instances
  componentsListDirty,   \* per entity: cache invalid
  createComponentsList,  \* per entity: array of instances pushed by add
  currentEntity,         \* Component.ts module variable (construction context)
  nextInstance,          \* number of component instances constructed so far
  ctorOf,                \* per instance: its class
  entityOf,              \* per instance: Component._entity
  created,               \* per instance: Component.created
  pc, sig, k, len, i, cur, curC,   \* position of the signal dispatch in progress
  nCreate, nDestroy, updated,      \* per instance: hook calls observed so far
  trace,                 \* hook calls of the operation in progress / last run
  present,               \* per entity and class: instance of the last add still standing
  emitted,               \* events the operation in progress / last run has emitted
  attachedBefore,        \* instances attached when the signal in progress / last run began
  hookOps,               \* operations the hooks of the dispatch in progress have called
  conditions,            \* QueryBuilder.conditions of the entity system's query object
  result,                \* entities the last terminal operation of the query returned
  evaluated,             \* <<condition index, entity>> for which it called the where function
  asked,                 \* the conditions the last terminal operation ran with
  constructing,          \* stack of the add calls whose constructor is running
  reads,                 \* reads of this.entity by the constructors of the running / last add
  field,                 \* per instance: what its constructor got as first positional argument
  inherited,             \* how many of the conditions (of asked, once a terminal operation
                         \* returned) were pushed before the latest read of EntitySystem.query
  ret                    \* last operation and its outcome

progVars == <<entities, nextEntity, componentsMap, componentsList, componentsListDirty,
              createComponentsList, currentEntity, nextInstance, ctorOf, entityOf, created>>
loopVars == <<sig, k, len, i, cur, curC>>
frameVars == <<pc, loopVars>>
obsVars == <<nCreate, nDestroy, updated, trace, present, emitted, attachedBefore, hookOps, ret>>
queryVars == <<conditions, result, evaluated, asked, inherited>>
constructVars == <<constructing, reads, field>>
vars == <<progVars, frameVars, obsVars, queryVars, constructVars>>

\* ---------------------------------------------------------------- helpers
Range(s) == {s[n] : n \in 1..Len(s)}

IndexOf(s, x) ==
  IF x \in Range(s) THEN CHOOSE n \in 1..Len(s) : s[n] = x /\ \A m \in 1..(n - 1) : s[m] # x
                    ELSE 0

RemoveAt(s, n) == SubSeq(s, 1, n - 1) \o SubSeq(s, n + 1, Len(s))

Filter(s, x) == SelectSeq(s, LAMBDA y : y # x)

Bump(n) == IF n < MaxCount THEN n + 1 ELSE n

\* JavaScript values an argument or a field can hold: undefined, a string, an
\* array of strings
Undefined == [type |-> "undefined", str |-> "", items |-> <<>>]
String(s) == [type |-> "string", str |-> s, items |-> <<>>]
Array(items) == [type |-> "array", str |-> "", items |-> items]

Ret(op, e, ctor, val, err) == [op |-> op, e |-> e, ctor |-> ctor, val |-> val, err |-> err]

\* ---------------------------------------------------- ComponentSystem reads
\* Map.get(ctor): the map entry or undefined
MapEntryIndex(e, ctor) ==
  IF \E n \in 1..Len(componentsMap[e]) : componentsMap[e][n].ctor = ctor
    THEN CHOOSE n \in 1..Len(componentsMap[e]) : componentsMap[e][n].ctor = ctor
    ELSE 0

\* a variant of has that never finds the class
hasNever(e, ctor) == FALSE

\* ComponentSystem.has(Component)
has(e, ctor) == MapEntryIndex(e, ctor) # 0

find(e, ctor) ==
  IF MapEntryIndex(e, ctor) # 0 THEN componentsMap[e][MapEntryIndex(e, ctor)].instance ELSE 0

get(e, ctor) ==
  IF MapEntryIndex(e, ctor) = 0
    THEN [err |-> "ComponentNotFound", val |-> 0]
    ELSE [err |-> "none", val |-> componentsMap[e][MapEntryIndex(e, ctor)].instance]

\* the comparator of rebuildList: a.meta?.priority ?? 0
metaPriority(entry) == IF entry.meta.has THEN entry.meta.priority ELSE 0

\* Array.prototype.sort is stable: insert each entry behind the entries that
\* do not compare greater
RECURSIVE InsertSorted(_, _)
InsertSorted(sorted, entry) ==
  IF sorted = <<>> THEN <<entry>>
  ELSE IF metaPriority(sorted[Len(sorted)]) - metaPriority(entry) <= 0
    THEN Append(sorted, entry)
    ELSE Append(InsertSorted(SubSeq(sorted, 1, Len(sorted) - 1), entry), sorted[Len(sorted)])

RECURSIVE SortEntries(_)
SortEntries(s) ==
  IF s = <<>> THEN <<>>
  ELSE InsertSorted(SortEntries(SubSeq(s, 1, Len(s) - 1)), s[Len(s)])

\* the array rebuildList computes from the map entries
SortedInstances(map) ==
  LET sorted == SortEntries(map)
  IN [n \in 1..Len(sorted) |-> sorted[n].instance]

\* a variant of rebuildList that always returns the cached list
rebuildListCached(map, list, dirty) == list

\* ComponentSystem.rebuildList(): this.componentsList afterwards, for a
\* component system with the given map, cached list and dirty flag
rebuildList(map, list, dirty) ==
  IF dirty THEN SortedInstances(map) ELSE list

\* this.componentsList of entity e after rebuildList()
rebuilt(e) == rebuildList(componentsMap[e], componentsList[e], componentsListDirty[e])

\* ------------------------------------------------------------------- Init
Init ==
  /\ entities = <<>>
  /\ nextEntity = 0
  /\ componentsMap = [e \in EntityIds |-> <<>>]
  /\ componentsList = [e \in EntityIds |-> <<>>]
  /\ componentsListDirty = [e \in EntityIds |-> TRUE]
  /\ createComponentsList = [e \in EntityIds |-> <<>>]
  /\ currentEntity = 0
  /\ nextInstance = 0
  /\ ctorOf = [c \in InstanceIds |-> "none"]
  /\ entityOf = [c \in InstanceIds |-> 0]
  /\ created = [c \in InstanceIds |-> FALSE]
  /\ pc = "idle" /\ sig = "none" /\ k = 0 /\ len = 0 /\ i = 0 /\ cur = 0 /\ curC = 0
  /\ nCreate = [c \in InstanceIds |-> 0]
  /\ nDestroy = [c \in InstanceIds |-> 0]
  /\ updated = [c \in InstanceIds |-> FALSE]
  /\ trace = <<>>
  /\ present = [e \in EntityIds |-> [ctor \in Ctors |-> 0]]
  /\ emitted = <<>>
  /\ attachedBefore = {}
  /\ hookOps = 0
  /\ conditions = <<>>
  /\ result = <<>>
  /\ evaluated = {}
  /\ asked = <<>>
  /\ constructing = <<>>
  /\ reads = {}
  /\ field = [c \in InstanceIds |-> Undefined]
  /\ inherited = 0
  /\ ret = Ret("none", 0, "none", 0, "none")

instVars == <<nextInstance, ctorOf, entityOf, created>>
listVars == <<componentsMap, componentsList, componentsListDirty>>
hookVars == <<nCreate, nDestroy, updated>>
dispatchVars == <<attachedBefore, hookOps>>

\* ------------------------------------------------- EntitySystem operations
\* EntitySystem.create(): construct an entity, track it
Create ==
  /\ pc = "idle"
  /\ pc' = "done"
  /\ nextEntity < MaxEntities
  /\ nextEntity' = nextEntity + 1
  /\ entities' = Append(entities, nextEntity + 1)
  /\ trace' = <<>>
  /\ emitted' = <<<<"create", nextEntity + 1>>>>
  /\ ret' = Ret("create", nextEntity + 1, "none", 0, "none")
  /\ UNCHANGED <<listVars, createComponentsList, currentEntity, instVars, loopVars,
                 hookVars, present>>
  /\ UNCHANGED dispatchVars
  /\ UNCHANGED queryVars
  /\ UNCHANGED constructVars

\* the part of the state EntitySystem.destroy reads and writes
destroyState ==
  [entities |-> entities, componentsMap |-> componentsMap, componentsList |-> componentsList,
   componentsListDirty |-> componentsListDirty, nDestroy |-> nDestroy, trace |-> <<>>,
   present |-> present, emitted |-> <<>>]

\* a variant of destroy that calls the hooks and keeps the entity as it is
destroyHooksOnly(st, e) ==
  LET index == IndexOf(st.entities, e)
      list == rebuildList(st.componentsMap[e], st.componentsList[e], st.componentsListDirty[e])
  IN IF index # 0
       THEN [st EXCEPT
               !.nDestroy = [c \in InstanceIds |->
                               IF c \in Range(list) THEN Bump(@[c]) ELSE @[c]],
               !.trace = @ \o [n \in 1..Len(list) |-> <<"destroy", list[n]>>]]
       ELSE st

\* a variant of destroy without the test of the index: for an untracked entity
\* indexOf yields -1 and splice(-1, 1) takes the last entity out
destroyUnchecked(st, e) ==
  LET index == IF IndexOf(st.entities, e) # 0 THEN IndexOf(st.entities, e) ELSE Len(st.entities)
      list == rebuildList(st.componentsMap[e], st.componentsList[e], st.componentsListDirty[e])
  IN [st EXCEPT
        !.nDestroy = [c \in InstanceIds |->
                        IF c \in Range(list) THEN Bump(@[c]) ELSE @[c]],
        !.trace = @ \o [n \in 1..Len(list) |-> <<"destroy", list[n]>>],
        !.componentsMap[e] = <<>>,
        !.componentsList[e] = <<>>,
        !.componentsListDirty[e] = FALSE,
        !.entities = RemoveAt(@, index),
        !.present[e] = [ctor \in Ctors |-> 0],
        !.emitted = Append(@, <<"destroy", e>>)]

\* EntitySystem.destroy(entity) on the state st: a tracked entity has destroy()
\* called on its components through ComponentSystem.forEach, its component
\* system cleared and is spliced out of the array
destroy(st, e) ==
  LET index == IndexOf(st.entities, e)
      list == rebuildList(st.componentsMap[e], st.componentsList[e], st.componentsListDirty[e])
  IN IF index # 0
       THEN [st EXCEPT
               !.nDestroy = [c \in InstanceIds |->
                               IF c \in Range(list) THEN Bump(@[c]) ELSE @[c]],
               !.trace = @ \o [n \in 1..Len(list) |-> <<"destroy", list[n]>>],
               !.componentsMap[e] = <<>>,
               !.componentsList[e] = <<>>,
               !.componentsListDirty[e] = FALSE,
               !.entities = RemoveAt(@, index),
               !.present[e] = [ctor \in Ctors |-> 0],
               !.emitted = Append(@, <<"destroy", e>>)]
       ELSE st

\* the state st written back
setDestroyState(st) ==
  /\ entities' = st.entities
  /\ componentsMap' = st.componentsMap
  /\ componentsList' = st.componentsList
  /\ componentsListDirty' = st.componentsListDirty
  /\ nDestroy' = st.nDestroy
  /\ trace' = st.trace
  /\ present' = st.present
  /\ emitted' = st.emitted

\* scene.entities.destroy(entity) called by the program
Destroy(e) ==
  /\ pc = "idle"
  /\ pc' = "done"
  /\ e \in 1..nextEntity
  /\ setDestroyState(destroy(destroyState, e))
  /\ ret' = Ret("entity.destroy", e, "none", 0, "none")
  /\ UNCHANGED <<nextEntity, createComponentsList, currentEntity, instVars, loopVars,
                 nCreate, updated>>
  /\ UNCHANGED dispatchVars
  /\ UNCHANGED queryVars
  /\ UNCHANGED constructVars

\* Entity.destroy(): hands off to the entity system
EntityDestroy(e) ==
  /\ pc = "idle"
  /\ pc' = "done"
  /\ e \in 1..nextEntity
  /\ setDestroyState(destroy(destroyState, e))
  /\ ret' = Ret("entity.destroy", e, "none", 0, "none")
  /\ UNCHANGED <<nextEntity, createComponentsList, currentEntity, instVars, loopVars,
                 nCreate, updated>>
  /\ UNCHANGED dispatchVars
  /\ UNCHANGED queryVars
  /\ UNCHANGED constructVars

\* sceneDestroy: this.entities.forEach((e) => this.destroy(e)). Array.forEach
\* reads the length n once, visits the indices below it in turn and skips an
\* index that holds no element any more.
RECURSIVE sceneDestroyLoop(_, _, _)
sceneDestroyLoop(st, kk, n) ==
  IF kk > n \/ kk > Len(st.entities) THEN st
  ELSE sceneDestroyLoop(destroy(st, st.entities[kk]), kk + 1, n)

\* the host emits 'destroy' or 'shutdown'
sceneDestroy(s) ==
  /\ pc = "idle"
  /\ pc' = "done"
  /\ s \in {"destroy", "shutdown"}
  /\ setDestroyState(sceneDestroyLoop(destroyState, 1, Len(entities)))
  /\ ret' = Ret(s, 0, "none", 0, "none")
  /\ UNCHANGED <<nextEntity, createComponentsList, currentEntity, instVars, loopVars,
                 nCreate, updated>>
  /\ UNCHANGED dispatchVars
  /\ UNCHANGED queryVars
  /\ UNCHANGED constructVars

\* ----------------------------------------------- ComponentSystem operations
\* ComponentSystem.add(Component)
Add(e, ctor) ==
  /\ pc = "idle"
  /\ pc' = "done"
  /\ e \in Range(entities)
  /\ trace' = <<>>
  /\ IF has(e, ctor)
       THEN /\ ret' = Ret("add", e, ctor, 0, "DuplicateComponent")
            /\ emitted' = <<>>
            /\ UNCHANGED <<listVars, createComponentsList, currentEntity, instVars, present>>
       ELSE /\ nextInstance < MaxInstances
            /\ LET instance == nextInstance + 1
               IN /\ nextInstance' = instance
                  /\ currentEntity' = 0
                  /\ ctorOf' = [ctorOf EXCEPT ![instance] = ctor]
                  /\ entityOf' = [entityOf EXCEPT ![instance] = e]
                  /\ created' = [created EXCEPT ![instance] = FALSE]
                  /\ componentsMap' = [componentsMap EXCEPT ![e] =
                       Append(@, [ctor |-> ctor, instance |-> instance,
                                  meta |-> getComponentMeta(ctor)])]
                  /\ createComponentsList' = [createComponentsList EXCEPT ![e] = Append(@, instance)]
                  /\ componentsListDirty' = [componentsListDirty EXCEPT ![e] = TRUE]
                  /\ componentsList' = componentsList
                  /\ present' = [present EXCEPT ![e][ctor] = instance]
                  /\ emitted' = <<<<"add", instance>>, <<"update", 0>>>>
                  /\ ret' = Ret("add", e, ctor, instance, "none")
  /\ UNCHANGED <<entities, nextEntity, loopVars, hookVars>>
  /\ UNCHANGED dispatchVars
  /\ UNCHANGED queryVars
  /\ UNCHANGED constructVars

\* a variant of Remove that leaves the cached list valid
RemoveKeepsList(e, ctor) ==
  /\ pc = "idle"
  /\ pc' = "done"
  /\ e \in Range(entities)
  /\ trace' = <<>>
  /\ LET n == MapEntryIndex(e, ctor)
     IN IF n = 0
          THEN /\ ret' = Ret("remove", 0, "none", 0, "none")
               /\ emitted' = <<>>
               /\ UNCHANGED <<listVars, createComponentsList, present>>
          ELSE /\ componentsMap' = [componentsMap EXCEPT ![e] = RemoveAt(@, n)]
               /\ UNCHANGED <<componentsList, componentsListDirty>>
               /\ createComponentsList' = [createComponentsList EXCEPT ![e] =
                    Filter(@, componentsMap[e][n].instance)]
               /\ present' = [present EXCEPT ![e][ctor] = 0]
               /\ emitted' = <<<<"remove", componentsMap[e][n].instance>>, <<"update", 0>>>>
               /\ ret' = Ret("remove", e, ctor, componentsMap[e][n].instance, "none")
  /\ UNCHANGED <<entities, nextEntity, currentEntity, instVars, loopVars, hookVars>>
  /\ UNCHANGED dispatchVars
  /\ UNCHANGED queryVars
  /\ UNCHANGED constructVars

\* a variant of Remove without the early return for an absent class
RemoveNoEarlyReturn(e, ctor) ==
  /\ pc = "idle"
  /\ pc' = "done"
  /\ e \in Range(entities)
  /\ trace' = <<>>
  /\ LET n == MapEntryIndex(e, ctor)
     IN IF n = 0
          THEN /\ ret' = Ret("remove", 0, "none", 0, "none")
               /\ componentsListDirty' = [componentsListDirty EXCEPT ![e] = TRUE]
               /\ emitted' = <<<<"remove", 0>>, <<"update", 0>>>>
               /\ UNCHANGED <<componentsMap, componentsList, createComponentsList, present>>
          ELSE /\ componentsMap' = [componentsMap EXCEPT ![e] = RemoveAt(@, n)]
               /\ componentsListDirty' = [componentsListDirty EXCEPT ![e] = TRUE]
               /\ componentsList' = componentsList
               /\ createComponentsList' = [createComponentsList EXCEPT ![e] =
                    Filter(@, componentsMap[e][n].instance)]
               /\ present' = [present EXCEPT ![e][ctor] = 0]
               /\ emitted' = <<<<"remove", componentsMap[e][n].instance>>, <<"update", 0>>>>
               /\ ret' = Ret("remove", e, ctor, componentsMap[e][n].instance, "none")
  /\ UNCHANGED <<entities, nextEntity, currentEntity, instVars, loopVars, hookVars>>
  /\ UNCHANGED dispatchVars
  /\ UNCHANGED queryVars
  /\ UNCHANGED constructVars

\* ComponentSystem.remove(Component)
Remove(e, ctor) ==
  /\ pc = "idle"
  /\ pc' = "done"
  /\ e \in Range(entities)
  /\ trace' = <<>>
  /\ LET n == MapEntryIndex(e, ctor)
     IN IF n = 0
          THEN /\ ret' = Ret("remove", 0, "none", 0, "none")
               /\ emitted' = <<>>
               /\ UNCHANGED <<listVars, createComponentsList, present>>
          ELSE /\ componentsMap' = [componentsMap EXCEPT ![e] = RemoveAt(@, n)]
               /\ componentsListDirty' = [componentsListDirty EXCEPT ![e] = TRUE]
               /\ componentsList' = componentsList
               /\ createComponentsList' = [createComponentsList EXCEPT ![e] =
                    Filter(@, componentsMap[e][n].instance)]
               /\ present' = [present EXCEPT ![e][ctor] = 0]
               /\ emitted' = <<<<"remove", componentsMap[e][n].instance>>, <<"update", 0>>>>
               /\ ret' = Ret("remove", e, ctor, componentsMap[e][n].instance, "none")
  /\ UNCHANGED <<entities, nextEntity, currentEntity, instVars, loopVars, hookVars>>
  /\ UNCHANGED dispatchVars
  /\ UNCHANGED queryVars
  /\ UNCHANGED constructVars

\* ComponentSystem.all(): rebuild the cached list if needed and return it
All(e) ==
  /\ pc = "idle"
  /\ pc' = "done"
  /\ e \in Range(entities)
  /\ componentsList' = [componentsList EXCEPT ![e] = rebuilt(e)]
  /\ componentsListDirty' = [componentsListDirty EXCEPT ![e] = FALSE]
  /\ trace' = <<>>
  /\ emitted' = <<>>
  /\ ret' = Ret("all", e, "none", 0, "none")
  /\ UNCHANGED <<entities, nextEntity, componentsMap, createComponentsList, currentEntity,
                 instVars, loopVars, hookVars, present>>
  /\ UNCHANGED dispatchVars
  /\ UNCHANGED queryVars
  /\ UNCHANGED constructVars

\* a variant of Clear that empties the cached list and leaves the map
ClearListOnly(e) ==
  /\ pc = "idle"
  /\ pc' = "done"
  /\ e \in Range(entities)
  /\ componentsList' = [componentsList EXCEPT ![e] = <<>>]
  /\ componentsListDirty' = [componentsListDirty EXCEPT ![e] = FALSE]
  /\ present' = [present EXCEPT ![e] = [ctor \in Ctors |-> 0]]
  /\ trace' = <<>>
  /\ emitted' = <<>>
  /\ ret' = Ret("clear", e, "none", 0, "none")
  /\ UNCHANGED <<entities, nextEntity, componentsMap, createComponentsList, currentEntity,
                 instVars, loopVars, hookVars>>
  /\ UNCHANGED dispatchVars
  /\ UNCHANGED queryVars
  /\ UNCHANGED constructVars

\* ComponentSystem.clear()
Clear(e) ==
  /\ pc = "idle"
  /\ pc' = "done"
  /\ e \in Range(entities)
  /\ componentsMap' = [componentsMap EXCEPT ![e] = <<>>]
  /\ componentsList' = [componentsList EXCEPT ![e] = <<>>]
  /\ componentsListDirty' = [componentsListDirty EXCEPT ![e] = FALSE]
  /\ present' = [present EXCEPT ![e] = [ctor \in Ctors |-> 0]]
  /\ trace' = <<>>
  /\ emitted' = <<>>
  /\ ret' = Ret("clear", e, "none", 0, "none")
  /\ UNCHANGED <<entities, nextEntity, createComponentsList, currentEntity, instVars,
                 loopVars, hookVars>>
  /\ UNCHANGED dispatchVars
  /\ UNCHANGED queryVars
  /\ UNCHANGED constructVars

\* ------------------------------------------------- host signal dispatch
\* sceneUpdate, sceneSleep, sceneWake, scenePause and sceneResume run
\*   this.entities.forEach((e) => e.components.forEach((c) => <hook of c>))
\* The dispatch is in progress while a hook runs (pc = "inCreate", "inHook");
\* k and i are the indices of the two loops, len the length entities.forEach
\* read when it started, cur the entity of the running inner loop.

\* a variant of checkRequired that finds nothing missing
checkRequiredNothing(c) ==
  {}

\* Component.checkRequired(): the required classes missing on the entity of c
checkRequired(c) ==
  {r \in required(ctorOf[c]) : ~has(entityOf[c], r)}

\* a variant of runsCreate in which every signal creates a pending instance
runsCreateOnAnySignal(s, c) ==
  ~created[c]

\* whether the callback of signal s calls create() on c: only sceneUpdate goes
\* through Component[createAndUpdate], which tests the created flag
runsCreate(s, c) ==
  s = "update" /\ ~created[c]

\* entities.forEach: the first index from kk on, below the length n and still
\* holding an element, whose entity has a component to call (0: none is left).
\* ComponentSystem.forEach rebuilds the list of every entity it enters.
RECURSIVE nextEntityIndex(_, _)
nextEntityIndex(kk, n) ==
  IF kk > n \/ kk > Len(entities) THEN 0
  ELSE IF rebuilt(entities[kk]) # <<>> THEN kk
  ELSE nextEntityIndex(kk + 1, n)

\* The two loops move on from index ii of the inner loop of entity e (at index
\* kk; kk = 0 before the first entity): where the next callback runs, and the
\* entities whose inner loop was entered on the way
forEach(kk, e, ii, n) ==
  IF kk > 0 /\ ii <= Len(componentsList[e])
    THEN [k |-> kk, cur |-> e, i |-> ii, visited |-> {}]
    ELSE LET j == nextEntityIndex(kk + 1, n)
             last == IF j # 0 THEN j ELSE IF n < Len(entities) THEN n ELSE Len(entities)
         IN [k |-> j, cur |-> IF j = 0 THEN 0 ELSE entities[j], i |-> 1,
             visited |-> {entities[m] : m \in (kk + 1)..last}]

\* a variant of callback that calls create() before the required components
\* are checked
callbackCreatesUnchecked(pos, s, n, tr, r) ==
  /\ componentsList' = [e \in EntityIds |->
                          IF e \in pos.visited THEN rebuilt(e) ELSE componentsList[e]]
  /\ componentsListDirty' = [e \in EntityIds |->
                               IF e \in pos.visited THEN FALSE ELSE componentsListDirty[e]]
  /\ IF pos.k = 0
       THEN /\ pc' = "done" /\ sig' = "none" /\ k' = 0 /\ len' = 0
            /\ i' = 0 /\ cur' = 0 /\ curC' = 0
            /\ trace' = tr /\ ret' = r
            /\ UNCHANGED hookVars
       ELSE LET list == IF pos.cur \in pos.visited THEN rebuilt(pos.cur)
                                                   ELSE componentsList[pos.cur]
                c == list[pos.i]
            IN IF runsCreate(s, c) /\ checkRequired(c) # {}
                 THEN /\ pc' = "done" /\ sig' = "none" /\ k' = 0 /\ len' = 0
                      /\ i' = 0 /\ cur' = 0 /\ curC' = 0
                      /\ trace' = Append(tr, <<"create", c>>)
                      /\ ret' = [r EXCEPT !.err = "MissingRequiredComponent", !.val = c]
                      /\ nCreate' = [nCreate EXCEPT ![c] = Bump(@)]
                      /\ UNCHANGED <<nDestroy, updated>>
                 ELSE /\ sig' = s /\ k' = pos.k /\ len' = n /\ i' = pos.i
                      /\ cur' = pos.cur /\ curC' = c
                      /\ ret' = r
                      /\ IF runsCreate(s, c)
                           THEN /\ pc' = "inCreate"
                                /\ nCreate' = [nCreate EXCEPT ![c] = Bump(@)]
                                /\ trace' = Append(tr, <<"create", c>>)
                                /\ UNCHANGED <<nDestroy, updated>>
                           ELSE /\ pc' = "inHook"
                                /\ updated' = [updated EXCEPT ![c] = @ \/ s = "update"]
                                /\ trace' = Append(tr, <<s, c>>)
                                /\ UNCHANGED <<nCreate, nDestroy>>

\* The callback of signal s at position pos; tr are the hook calls and r the
\* outcome of the dispatch so far. With no position left the handler returns.
\* For 'update' the callback is Component[createAndUpdate]: an instance not yet
\* created checks its required components (and throws) and has create() called
callback(pos, s, n, tr, r) ==
  /\ componentsList' = [e \in EntityIds |->
                          IF e \in pos.visited THEN rebuilt(e) ELSE componentsList[e]]
  /\ componentsListDirty' = [e \in EntityIds |->
                               IF e \in pos.visited THEN FALSE ELSE componentsListDirty[e]]
  /\ IF pos.k = 0
       THEN /\ pc' = "done" /\ sig' = "none" /\ k' = 0 /\ len' = 0
            /\ i' = 0 /\ cur' = 0 /\ curC' = 0
            /\ trace' = tr /\ ret' = r
            /\ UNCHANGED hookVars
       ELSE LET list == IF pos.cur \in pos.visited THEN rebuilt(pos.cur)
                                                   ELSE componentsList[pos.cur]
                c == list[pos.i]
            IN IF runsCreate(s, c) /\ checkRequired(c) # {}
                 THEN /\ pc' = "done" /\ sig' = "none" /\ k' = 0 /\ len' = 0
                      /\ i' = 0 /\ cur' = 0 /\ curC' = 0
                      /\ trace' = tr
                      /\ ret' = [r EXCEPT !.err = "MissingRequiredComponent", !.val = c]
                      /\ UNCHANGED hookVars
                 ELSE /\ sig' = s /\ k' = pos.k /\ len' = n /\ i' = pos.i
                      /\ cur' = pos.cur /\ curC' = c
                      /\ ret' = r
                      /\ IF runsCreate(s, c)
                           THEN /\ pc' = "inCreate"
                                /\ nCreate' = [nCreate EXCEPT ![c] = Bump(@)]
                                /\ trace' = Append(tr, <<"create", c>>)
                                /\ UNCHANGED <<nDestroy, updated>>
                           ELSE /\ pc' = "inHook"
                                /\ updated' = [updated EXCEPT ![c] = @ \/ s = "update"]
                                /\ trace' = Append(tr, <<s, c>>)
                                /\ UNCHANGED <<nCreate, nDestroy>>

\* the host emits 'update', 'sleep', 'wake', 'pause' or 'resume'
Signal(s) ==
  /\ pc = "idle"
  /\ s \in HookSignals
  /\ callback(forEach(0, 0, 1, Len(entities)), s, Len(entities), <<>>,
              Ret(s, 0, "none", 0, "none"))
  /\ emitted' = <<>>
  /\ UNCHANGED <<entities, nextEntity, componentsMap, createComponentsList, currentEntity,
                 instVars, present>>
  /\ attachedBefore' = UNION {{componentsMap[e][n].instance : n \in 1..Len(componentsMap[e])} :
                                 e \in Range(entities)}
  /\ hookOps' = 0
  /\ UNCHANGED queryVars
  /\ UNCHANGED constructVars

\* a variant of createAndUpdate that leaves the created flag unset
createAndUpdateKeepsPending ==
  /\ pc = "inCreate"
  /\ pc' = "inHook"
  /\ updated' = [updated EXCEPT ![curC] = TRUE]
  /\ trace' = Append(trace, <<"update", curC>>)
  /\ UNCHANGED <<entities, nextEntity, listVars, createComponentsList, currentEntity,
                 instVars, loopVars, nCreate, nDestroy, present, emitted, ret>>
  /\ UNCHANGED dispatchVars
  /\ UNCHANGED queryVars
  /\ UNCHANGED constructVars

\* Component[createAndUpdate], second part: create() has returned, the flag is
\* set and update(time, delta) is called
createAndUpdate ==
  /\ pc = "inCreate"
  /\ pc' = "inHook"
  /\ created' = [created EXCEPT ![curC] = TRUE]
  /\ updated' = [updated EXCEPT ![curC] = TRUE]
  /\ trace' = Append(trace, <<"update", curC>>)
  /\ UNCHANGED <<entities, nextEntity, listVars, createComponentsList, currentEntity,
                 nextInstance, ctorOf, entityOf, loopVars, nCreate, nDestroy, present,
                 emitted, ret>>
  /\ UNCHANGED dispatchVars
  /\ UNCHANGED queryVars
  /\ UNCHANGED constructVars

\* a hook returns and the loops go on
hookReturn ==
  /\ pc = "inHook"
  /\ callback(forEach(k, cur, i + 1, len), sig, len, trace, ret)
  /\ UNCHANGED <<entities, nextEntity, componentsMap, createComponentsList, currentEntity,
                 instVars, present, emitted>>
  /\ UNCHANGED dispatchVars
  /\ UNCHANGED queryVars
  /\ UNCHANGED constructVars

\* ------------------------------------------- operations called by a hook
\* While a hook runs (pc = "inCreate", "inHook") it may call the component
\* system of any tracked entity; the dispatch goes on from the state it leaves.
\* Calls that throw or change nothing are left out.

\* a hook is running and may call one more operation
inHookCall ==
  /\ pc \in {"inCreate", "inHook", "inCreatePass", "inUpdatePass"}
  /\ hookOps < MaxHookOps
  /\ hookOps' = hookOps + 1

\* ComponentSystem.add(Component) called by the running hook
HookAdd(e, ctor) ==
  /\ inHookCall
  /\ e \in Range(entities)
  /\ ~has(e, ctor)
  /\ nextInstance < MaxInstances + MaxHookInstances
  /\ LET instance == nextInstance + 1
     IN /\ nextInstance' = instance
        /\ currentEntity' = 0
        /\ ctorOf' = [ctorOf EXCEPT ![instance] = ctor]
        /\ entityOf' = [entityOf EXCEPT ![instance] = e]
        /\ created' = [created EXCEPT ![instance] = FALSE]
        /\ componentsMap' = [componentsMap EXCEPT ![e] =
             Append(@, [ctor |-> ctor, instance |-> instance,
                        meta |-> getComponentMeta(ctor)])]
        /\ createComponentsList' = [createComponentsList EXCEPT ![e] = Append(@, instance)]
        /\ componentsListDirty' = [componentsListDirty EXCEPT ![e] = TRUE]
        /\ present' = [present EXCEPT ![e][ctor] = instance]
        /\ emitted' = emitted \o <<<<"add", instance>>, <<"update", 0>>>>
  /\ UNCHANGED <<entities, nextEntity, componentsList, frameVars, hookVars, trace,
                 attachedBefore, ret, queryVars>>
  /\ UNCHANGED constructVars

\* ComponentSystem.remove(Component) called by the running hook, for a
\* component other than its own
HookRemove(e, ctor) ==
  /\ inHookCall
  /\ e \in Range(entities)
  /\ has(e, ctor)
  /\ find(e, ctor) # curC
  /\ LET n == MapEntryIndex(e, ctor)
     IN /\ componentsMap' = [componentsMap EXCEPT ![e] = RemoveAt(@, n)]
        /\ componentsListDirty' = [componentsListDirty EXCEPT ![e] = TRUE]
        /\ createComponentsList' = [createComponentsList EXCEPT ![e] =
             Filter(@, componentsMap[e][n].instance)]
        /\ present' = [present EXCEPT ![e][ctor] = 0]
        /\ emitted' = emitted \o <<<<"remove", componentsMap[e][n].instance>>, <<"update", 0>>>>
  /\ UNCHANGED <<entities, nextEntity, componentsList, currentEntity, instVars, frameVars,
                 hookVars, trace, attachedBefore, ret, queryVars>>
  /\ UNCHANGED constructVars

\* ComponentSystem.all() called by the running hook
HookAll(e) ==
  /\ inHookCall
  /\ e \in Range(entities)
  /\ componentsListDirty[e]
  /\ componentsList' = [componentsList EXCEPT ![e] = rebuilt(e)]
  /\ componentsListDirty' = [componentsListDirty EXCEPT ![e] = FALSE]
  /\ UNCHANGED <<entities, nextEntity, componentsMap, createComponentsList, currentEntity,
                 instVars, frameVars, hookVars, trace, present, emitted, attachedBefore, ret,
                 queryVars>>
  /\ UNCHANGED constructVars

\* this.entity.destroy() / scene.entities.destroy(entity) called by the running
\* hook, for its own entity or another tracked one: destroy() is called on the
\* components of the entity, its component system is cleared and it is spliced
\* out of the array the dispatch in progress walks
HookDestroy(e) ==
  /\ inHookCall
  /\ e \in Range(entities)
  /\ setDestroyState(destroy([destroyState EXCEPT !.trace = trace, !.emitted = emitted], e))
  /\ UNCHANGED <<nextEntity, createComponentsList, currentEntity, instVars, frameVars,
                 nCreate, updated, attachedBefore, ret, queryVars>>
  /\ UNCHANGED constructVars

\* ------------------------------------------------------------ QueryBuilder
\* The entity system holds one QueryBuilder over its entities array. A
\* condition is a closure over the classes and the where function given to
\* with / without; it is modelled by what it closes over:
\*   [kind, ctors, where], ctors the array of classes (one class: an array of
\*   one), where.has whether a where function was given, where.set the
\*   instances the where function accepts (all of a tuple must be accepted).
QueryTargets == {<<"A">>, <<"B">>, <<"A", "B">>}
WhereFunctions ==
  {[has |-> FALSE, set |-> {}]} \cup {[has |-> TRUE, set |-> P] : P \in SUBSET (1..MaxInstances)}

\* ctors.map((ctor) => entity.components.find(ctor))
Instances(e, ctors) == [j \in 1..Len(ctors) |-> find(e, ctors[j])]

\* where(instances)
where(w, instances) == Range(instances) \subseteq w.set

\* a variant of withCondition that never calls the where function
withConditionIgnoresWhere(ctors, w, e) ==
  \A j \in 1..Len(ctors) : has(e, ctors[j])

\* the condition pushed by with(ctors, where), applied to entity e
withCondition(ctors, w, e) ==
  IF ~w.has
    THEN \A j \in 1..Len(ctors) : has(e, ctors[j])
    ELSE IF 0 \in Range(Instances(e, ctors)) THEN FALSE
         ELSE where(w, Instances(e, ctors))

\* a variant of withoutCondition that excludes an entity having any of the
\* classes, whatever the where function says
withoutConditionAnyPresent(ctors, w, e) ==
  \A j \in 1..Len(ctors) : ~has(e, ctors[j])

\* a variant of withoutCondition that excludes every entity having the classes
withoutConditionIgnoresWhere(ctors, w, e) ==
  ~(\A j \in 1..Len(ctors) : has(e, ctors[j]))

\* the condition pushed by without(ctors, where), applied to entity e
withoutCondition(ctors, w, e) ==
  IF ~w.has
    THEN ~(\A j \in 1..Len(ctors) : has(e, ctors[j]))
    ELSE IF 0 \in Range(Instances(e, ctors)) THEN TRUE
         ELSE ~where(w, Instances(e, ctors))

\* condition(entity)
Condition(cond, e) ==
  IF cond.kind = "with" THEN withCondition(cond.ctors, cond.where, e)
                        ELSE withoutCondition(cond.ctors, cond.where, e)

\* a variant of evaluateConditions that asks for one condition to hold
evaluateConditionsSome(e) ==
  \E j \in 1..Len(conditions) : Condition(conditions[j], e)

\* QueryBuilder.evaluateConditions(entity): conditions.every(...)
evaluateConditions(e) ==
  \A j \in 1..Len(conditions) : Condition(conditions[j], e)

\* every() stops at the first condition that fails: condition j is applied to e
\* when the conditions before it hold, and it calls its where function when e
\* has an instance of each of its classes
callsWhere(j, e) ==
  /\ conditions[j].where.has
  /\ \A m \in 1..(j - 1) : Condition(conditions[m], e)
  /\ 0 \notin Range(Instances(e, conditions[j].ctors))

\* for (const entity of this.entities) of all(): the matching entities
matching == SelectSeq(entities, evaluateConditions)

\* with(...) / without(...): push a condition
Push(kind, ctors, w) ==
  /\ pc = "idle"
  /\ pc' = "done"
  /\ Len(conditions) < MaxConditions
  /\ conditions' = Append(conditions, [kind |-> kind, ctors |-> ctors, where |-> w])
  /\ result' = <<>>
  /\ evaluated' = {}
  /\ asked' = <<>>
  /\ inherited' = inherited
  /\ trace' = <<>>
  /\ emitted' = <<>>
  /\ ret' = Ret(kind, 0, "none", 0, "none")
  /\ UNCHANGED <<progVars, loopVars, hookVars, present, dispatchVars, constructVars>>

With(ctors, w) == Push("with", ctors, w)

Without(ctors, w) == Push("without", ctors, w)

\* a variant of terminal that does not reset this.conditions
terminalKeepsConditions(op, res, val, visited) ==
  /\ pc = "idle"
  /\ pc' = "done"
  /\ result' = res
  /\ evaluated' = {<<j, e>> \in (1..Len(conditions)) \X visited : callsWhere(j, e)}
  /\ asked' = conditions
  /\ inherited' = inherited
  /\ conditions' = conditions
  /\ trace' = <<>>
  /\ emitted' = <<>>
  /\ ret' = Ret(op, 0, "none", val, "none")
  /\ UNCHANGED <<progVars, loopVars, hookVars, present, dispatchVars, constructVars>>

\* the part of a terminal operation all of them share
terminal(op, res, val, visited) ==
  /\ pc = "idle"
  /\ pc' = "done"
  /\ result' = res
  /\ evaluated' = {<<j, e>> \in (1..Len(conditions)) \X visited : callsWhere(j, e)}
  /\ asked' = conditions
  /\ inherited' = inherited
  /\ conditions' = <<>>
  /\ trace' = <<>>
  /\ emitted' = <<>>
  /\ ret' = Ret(op, 0, "none", val, "none")
  /\ UNCHANGED <<progVars, loopVars, hookVars, present, dispatchVars, constructVars>>

\* QueryBuilder.all()
QueryAll == terminal("query.all", matching, 0, Range(entities))

\* the positions of the entities that match
matches == {n \in 1..Len(entities) : evaluateConditions(entities[n])}

\* a variant of firstIndex whose loop does not break: the last match is kept
firstIndexNoBreak ==
  IF matches = {} THEN 0 ELSE CHOOSE n \in matches : \A m \in matches : m <= n

\* for (const entity of this.entities) of first(): the position at which the
\* loop breaks, 0 when it ends without a match
firstIndex ==
  IF matches = {} THEN 0 ELSE CHOOSE n \in matches : \A m \in matches : n <= m

\* the entities the loop of first() visits: up to the first match
firstVisited ==
  IF firstIndex = 0 THEN Range(entities) ELSE {entities[n] : n \in 1..firstIndex}

\* the value of result when first() returns: <<>> for undefined
firstResult == IF firstIndex = 0 THEN <<>> ELSE <<entities[firstIndex]>>

\* QueryBuilder.first()
QueryFirst == terminal("query.first", firstResult, 0, firstVisited)

\* QueryBuilder.count(): this.all().length
QueryCount == terminal("query.count", <<>>, Len(matching), Range(entities))

\* QueryBuilder.exists(): this.first() !== undefined
QueryExists ==
  terminal("query.exists", <<>>, IF firstResult # <<>> THEN 1 ELSE 0, firstVisited)

\* scene.entities.query: a read of the field, which holds the one QueryBuilder
\* made when the entity system was constructed
Query ==
  /\ pc = "idle"
  /\ inherited # Len(conditions)
  /\ inherited' = Len(conditions)
  /\ UNCHANGED <<progVars, frameVars, obsVars, conditions, result, evaluated, asked,
                 constructVars>>

\* ------------------------------------------------------------ Entity.update
\* meta.required of a map entry: no class declares required in its decorator
metaRequired(entry) == {}

\* ComponentSystem.createComponents(): the required classes missing for the
\* pending instance at position n, checked in the order of the queue
createComponentsMissing(e, n) ==
  LET c == createComponentsList[e][n]
      m == MapEntryIndex(e, ctorOf[c])
  IN IF m = 0 THEN {} ELSE {r \in metaRequired(componentsMap[e][m]) : ~has(e, r)}

\* the hook calls of ComponentSystem.updateComponents: create() on every
\* instance of createComponentsList in its order, then update() on every
\* instance of the rebuilt list
updateComponentsCalls(e) ==
  [n \in 1..Len(createComponentsList[e]) |-> <<"create", createComponentsList[e][n]>>]
    \o [n \in 1..Len(rebuilt(e)) |-> <<"update", rebuilt(e)[n]>>]

\* Entity.update, the entity's own listener of the host 'update' signal:
\* this.components.updateComponents(time, delta)
EntityUpdate(e) ==
  /\ pc = "idle"
  /\ pc' = "done"
  /\ e \in Range(entities)
  /\ \A n \in 1..Len(createComponentsList[e]) : createComponentsMissing(e, n) = {}
  /\ createComponentsList' = [createComponentsList EXCEPT ![e] = <<>>]
  /\ componentsList' = [componentsList EXCEPT ![e] = rebuilt(e)]
  /\ componentsListDirty' = [componentsListDirty EXCEPT ![e] = FALSE]
  /\ trace' = updateComponentsCalls(e)
  /\ nCreate' = [c \in InstanceIds |->
                   IF c \in Range(createComponentsList[e]) THEN Bump(nCreate[c]) ELSE nCreate[c]]
  /\ updated' = [c \in InstanceIds |-> updated[c] \/ c \in Range(rebuilt(e))]
  /\ emitted' = <<>>
  /\ ret' = Ret("entity.update", e, "none", 0, "none")
  /\ UNCHANGED <<entities, nextEntity, componentsMap, currentEntity, instVars, loopVars,
                 nDestroy, present>>
  /\ UNCHANGED dispatchVars
  /\ UNCHANGED queryVars
  /\ UNCHANGED constructVars

\* ------------------------------------------------------------ construction
\* ComponentSystem.add for a class whose constructor runs code of its own: it
\* may read this.entity, call add itself, or throw. The call is in progress
\* while constructors run (pc = "inCtor"); constructing is the stack of the
\* add calls, innermost last, each [e, ctor, args, nested], nested telling
\* whether an add called by that constructor has returned.
ConstructCtors == {"A", "B"}
ArgLists == {<<>>, <<"foo">>, <<"foo", "bar">>}

\* a variant of the getter that reads the field only
entityGetterFieldOnly(_entity, slot) == _entity

\* Component.entity getter: this._entity || currentEntity, 0 when it throws
entityGetter(_entity, slot) == IF _entity # 0 THEN _entity ELSE slot

\* new Component(args as unknown as []): the positional arguments the
\* constructor is called with
positional(args) == <<Array(args)>>

\* the first positional parameter of a constructor called with pos
firstParameter(pos) == IF Len(pos) >= 1 THEN pos[1] ELSE Undefined

\* a variant of raise that empties the construction context on the way out
raiseResetsContext(e, ctor, err) ==
  /\ pc' = "done"
  /\ constructing' = <<>>
  /\ ret' = IF constructing = <<>> THEN Ret("add", e, ctor, 0, err)
            ELSE Ret("add", constructing[1].e, constructing[1].ctor, 0, err)
  /\ currentEntity' = 0
  /\ UNCHANGED <<entities, nextEntity, listVars, createComponentsList, instVars, loopVars,
                 hookVars, trace, present, emitted, dispatchVars, queryVars, field>>

\* an error leaves the constructors that are running and reaches the caller of
\* the outermost add
raise(e, ctor, err) ==
  /\ pc' = "done"
  /\ constructing' = <<>>
  /\ ret' = IF constructing = <<>> THEN Ret("add", e, ctor, 0, err)
            ELSE Ret("add", constructing[1].e, constructing[1].ctor, 0, err)
  /\ UNCHANGED <<progVars, loopVars, hookVars, trace, present, emitted, dispatchVars,
                 queryVars, field>>

\* add(Component, ...args) up to the call of the constructor
AddCall(e, ctor, args) ==
  /\ \/ pc = "idle"
     \/ pc = "inCtor" /\ Len(constructing) < MaxNesting
  /\ e \in Range(entities)
  /\ IF has(e, ctor)
       THEN /\ raise(e, ctor, "DuplicateComponent")
            /\ reads' = reads
       ELSE /\ nextInstance + Len(constructing) < MaxInstances
            /\ \A n \in 1..Len(constructing) :
                 <<constructing[n].e, constructing[n].ctor>> # <<e, ctor>>
            /\ currentEntity' = e
            /\ constructing' = Append(constructing,
                 [e |-> e, ctor |-> ctor, args |-> args, nested |-> FALSE])
            /\ pc' = "inCtor"
            /\ UNCHANGED <<entities, nextEntity, listVars, createComponentsList, instVars,
                           loopVars, obsVars, queryVars, reads, field>>

\* the running constructor reads this.entity
ConstructorReads ==
  /\ pc = "inCtor"
  /\ LET top == constructing[Len(constructing)]
         r == [owner |-> top.e, yielded |-> entityGetter(0, currentEntity),
               nested |-> top.nested]
     IN /\ r \notin reads
        /\ reads' = reads \cup {r}
        /\ IF r.yielded = 0
             THEN raise(top.e, top.ctor, "NoEntitySet")
             ELSE UNCHANGED <<progVars, frameVars, obsVars, queryVars, constructing, field>>

\* the running constructor throws
ConstructorThrows ==
  /\ pc = "inCtor"
  /\ raise(0, "none", "ConstructorError")
  /\ reads' = reads

\* a variant of AddReturn that puts back the context of the enclosing
\* constructor
AddReturnRestoresContext ==
  /\ pc = "inCtor"
  /\ LET top == constructing[Len(constructing)]
         rest == SubSeq(constructing, 1, Len(constructing) - 1)
         instance == nextInstance + 1
         e == top.e
     IN /\ currentEntity' = IF rest = <<>> THEN 0 ELSE rest[Len(rest)].e
        /\ nextInstance' = instance
        /\ ctorOf' = [ctorOf EXCEPT ![instance] = top.ctor]
        /\ entityOf' = [entityOf EXCEPT ![instance] = e]
        /\ created' = [created EXCEPT ![instance] = FALSE]
        /\ field' = [field EXCEPT ![instance] = firstParameter(positional(top.args))]
        /\ componentsMap' = [componentsMap EXCEPT ![e] =
             Append(@, [ctor |-> top.ctor, instance |-> instance,
                        meta |-> getComponentMeta(top.ctor)])]
        /\ createComponentsList' = [createComponentsList EXCEPT ![e] = Append(@, instance)]
        /\ componentsListDirty' = [componentsListDirty EXCEPT ![e] = TRUE]
        /\ present' = [present EXCEPT ![e][top.ctor] = instance]
        /\ emitted' = emitted \o <<<<"add", instance>>, <<"update", 0>>>>
        /\ constructing' = [n \in 1..Len(rest) |->
                              IF n = Len(rest) THEN [rest[n] EXCEPT !.nested = TRUE] ELSE rest[n]]
        /\ pc' = IF rest = <<>> THEN "done" ELSE "inCtor"
        /\ ret' = IF rest = <<>> THEN Ret("add", e, top.ctor, instance, "none") ELSE ret
  /\ UNCHANGED <<entities, nextEntity, componentsList, loopVars, hookVars, trace,
                 dispatchVars, queryVars, reads>>

\* add from the return of the constructor to its own return
AddReturn ==
  /\ pc = "inCtor"
  /\ LET top == constructing[Len(constructing)]
         rest == SubSeq(constructing, 1, Len(constructing) - 1)
         instance == nextInstance + 1
         e == top.e
     IN /\ currentEntity' = 0
        /\ nextInstance' = instance
        /\ ctorOf' = [ctorOf EXCEPT ![instance] = top.ctor]
        /\ entityOf' = [entityOf EXCEPT ![instance] = e]
        /\ created' = [created EXCEPT ![instance] = FALSE]
        /\ field' = [field EXCEPT ![instance] = firstParameter(positional(top.args))]
        /\ componentsMap' = [componentsMap EXCEPT ![e] =
             Append(@, [ctor |-> top.ctor, instance |-> instance,
                        meta |-> getComponentMeta(top.ctor)])]
        /\ createComponentsList' = [createComponentsList EXCEPT ![e] = Append(@, instance)]
        /\ componentsListDirty' = [componentsListDirty EXCEPT ![e] = TRUE]
        /\ present' = [present EXCEPT ![e][top.ctor] = instance]
        /\ emitted' = emitted \o <<<<"add", instance>>, <<"update", 0>>>>
        /\ constructing' = [n \in 1..Len(rest) |->
                              IF n = Len(rest) THEN [rest[n] EXCEPT !.nested = TRUE] ELSE rest[n]]
        /\ pc' = IF rest = <<>> THEN "done" ELSE "inCtor"
        /\ ret' = IF rest = <<>> THEN Ret("add", e, top.ctor, instance, "none") ELSE ret
  /\ UNCHANGED <<entities, nextEntity, componentsList, loopVars, hookVars, trace,
                 dispatchVars, queryVars, reads>>

\* ------------------------------------------------------------ bookkeeping
\* An instance the program still holds in one of its collections or loops
Referenced(c) ==
  \/ \E e \in Range(entities) :
       \/ \E n \in 1..Len(componentsMap[e]) : componentsMap[e][n].instance = c
       \/ c \in Range(componentsList[e])
       \/ c \in Range(createComponentsList[e])
  \/ c = curC

\* The caller has looked at the outcome of the operation that returned. The
\* record of the outcome is dropped, and so are the objects the program holds no
\* reference to any more (no operation can reach them again): the instances no
\* tracked entity refers to and the component system of an untracked entity.
Settle ==
  /\ pc = "done"
  /\ pc' = "idle"
  /\ trace' = <<>>
  /\ emitted' = <<>>
  /\ attachedBefore' = {}
  /\ hookOps' = 0
  /\ result' = <<>>
  /\ evaluated' = {}
  /\ asked' = <<>>
  /\ conditions' = conditions
  /\ inherited' = IF conditions = <<>> THEN 0 ELSE inherited
  /\ constructing' = constructing
  /\ reads' = {}
  /\ field' = [c \in InstanceIds |-> IF Referenced(c) THEN field[c] ELSE Undefined]
  /\ ret' = Ret("none", 0, "none", 0, "none")
  /\ ctorOf' = [c \in InstanceIds |-> IF Referenced(c) THEN ctorOf[c] ELSE "none"]
  /\ entityOf' = [c \in InstanceIds |-> IF Referenced(c) THEN entityOf[c] ELSE 0]
  /\ created' = [c \in InstanceIds |-> IF Referenced(c) THEN created[c] ELSE FALSE]
  /\ nCreate' = [c \in InstanceIds |-> IF Referenced(c) THEN nCreate[c] ELSE 0]
  /\ nDestroy' = [c \in InstanceIds |-> IF Referenced(c) THEN nDestroy[c] ELSE 0]
  /\ updated' = [c \in InstanceIds |-> IF Referenced(c) THEN updated[c] ELSE FALSE]
  /\ componentsMap' = [e \in EntityIds |-> IF e \in Range(entities) THEN componentsMap[e] ELSE <<>>]
  /\ componentsList' = [e \in EntityIds |-> IF e \in Range(entities) THEN componentsList[e] ELSE <<>>]
  /\ componentsListDirty' = [e \in EntityIds |->
                               IF e \in Range(entities) THEN componentsListDirty[e] ELSE TRUE]
  /\ createComponentsList' = [e \in EntityIds |->
                                IF e \in Range(entities) THEN createComponentsList[e] ELSE <<>>]
  /\ UNCHANGED <<entities, nextEntity, currentEntity, nextInstance, loopVars, present>>

\* ------------------------------------------------------------ specification
Next ==
  \/ Create
  \/ \E e \in EntityIds : Destroy(e)
  \/ \E e \in EntityIds : EntityDestroy(e)
  \/ \E e \in EntityIds, ctor \in Ctors : Add(e, ctor)
  \/ \E e \in EntityIds, ctor \in Ctors : Remove(e, ctor)
  \/ \E e \in EntityIds : All(e)
  \/ \E e \in EntityIds : Clear(e)
  \/ \E s \in Signals : Signal(s)
  \/ \E s \in Signals : sceneDestroy(s)
  \/ createAndUpdate
  \/ hookReturn
  \/ Settle

Spec == Init /\ [][Next]_vars

\* the program with hooks that call the component systems
NextHooks ==
  \/ Next
  \/ \E e \in EntityIds, ctor \in Ctors : HookAdd(e, ctor)
  \/ \E e \in EntityIds, ctor \in Ctors : HookRemove(e, ctor)
  \/ \E e \in EntityIds : HookAll(e)

SpecHooks == Init /\ [][NextHooks]_vars

\* the program with hooks that destroy entities
NextHookDestroy ==
  \/ Next
  \/ \E e \in EntityIds : HookDestroy(e)

SpecHookDestroy == Init /\ [][NextHookDestroy]_vars

\* the program that builds entities and queries them
NextQuery ==
  \/ Create
  \/ \E e \in EntityIds : Destroy(e)
  \/ \E e \in EntityIds, ctor \in Ctors : Add(e, ctor)
  \/ \E ctors \in QueryTargets, w \in WhereFunctions : With(ctors, w)
  \/ \E ctors \in QueryTargets, w \in WhereFunctions : Without(ctors, w)
  \/ QueryAll
  \/ QueryFirst
  \/ QueryCount
  \/ QueryExists
  \/ Settle

SpecQuery == Init /\ [][NextQuery]_vars

\* the same program, with the reads of EntitySystem.query that start a chain
NextQueryAccess ==
  \/ Create
  \/ \E e \in EntityIds, ctor \in Ctors : Add(e, ctor)
  \/ Query
  \/ \E ctors \in QueryTargets, w \in WhereFunctions : With(ctors, w)
  \/ \E ctors \in QueryTargets, w \in WhereFunctions : Without(ctors, w)
  \/ QueryAll
  \/ Settle

SpecQueryAccess == Init /\ [][NextQueryAccess]_vars

\* the program in which each entity listens to the host 'update' signal itself
NextEntityUpdate ==
  \/ Create
  \/ \E e \in EntityIds, ctor \in Ctors : Add(e, ctor)
  \/ \E e \in EntityIds, ctor \in Ctors : Remove(e, ctor)
  \/ \E e \in EntityIds : All(e)
  \/ \E e \in EntityIds : Clear(e)
  \/ \E e \in EntityIds : EntityUpdate(e)
  \/ Settle

SpecEntityUpdate == Init /\ [][NextEntityUpdate]_vars

\* the program that adds components whose constructors run code
NextConstruct ==
  \/ Create
  \/ \E e \in EntityIds, ctor \in ConstructCtors, args \in ArgLists : AddCall(e, ctor, args)
  \/ ConstructorReads
  \/ ConstructorThrows
  \/ AddReturn
  \/ \E e \in EntityIds, ctor \in ConstructCtors : Remove(e, ctor)
  \/ Settle

SpecConstruct == Init /\ [][NextConstruct]_vars

\* ----------------------------------------- Entity.update, hook by hook
\* ComponentSystem.updateComponents with the hooks it calls as steps of their
\* own, so that a hook can call the component system while the passes run.
\* pc = "createPass" / "updatePass": the loop is about to look at index i;
\* pc = "inCreatePass" / "inUpdatePass": create() / update() of curC is running.

\* Entity.update is called: updateComponents enters createComponents, whose
\* createComponentsList.forEach reads the length of the array once
updateComponents(e) ==
  /\ pc = "idle"
  /\ e \in Range(entities)
  /\ pc' = "createPass"
  /\ sig' = "update" /\ k' = 0 /\ cur' = e /\ curC' = 0
  /\ i' = 1 /\ len' = Len(createComponentsList[e])
  /\ trace' = <<>>
  /\ emitted' = <<>>
  /\ ret' = Ret("entity.update", e, "none", 0, "none")
  /\ attachedBefore' = UNION {{componentsMap[d][n].instance : n \in 1..Len(componentsMap[d])} :
                                 d \in Range(entities)}
  /\ hookOps' = 0
  /\ UNCHANGED <<entities, nextEntity, listVars, createComponentsList, currentEntity,
                 instVars, hookVars, present>>
  /\ UNCHANGED queryVars
  /\ UNCHANGED constructVars

\* createComponents, the callback of createComponentsList.forEach at index i:
\* the required classes of the metadata are checked and create() is called
createComponentsCallback ==
  /\ pc = "createPass"
  /\ i <= len
  /\ createComponentsMissing(cur, i) = {}
  /\ pc' = "inCreatePass"
  /\ curC' = createComponentsList[cur][i]
  /\ nCreate' = [nCreate EXCEPT ![createComponentsList[cur][i]] = Bump(@)]
  /\ trace' = Append(trace, <<"create", createComponentsList[cur][i]>>)
  /\ UNCHANGED <<entities, nextEntity, listVars, createComponentsList, currentEntity,
                 instVars, sig, k, len, i, cur, nDestroy, updated, present, emitted, ret>>
  /\ UNCHANGED dispatchVars
  /\ UNCHANGED queryVars
  /\ UNCHANGED constructVars

\* create() returns into createComponentsList.forEach
createReturn ==
  /\ pc = "inCreatePass"
  /\ pc' = "createPass"
  /\ i' = i + 1
  /\ UNCHANGED <<entities, nextEntity, listVars, createComponentsList, currentEntity,
                 instVars, sig, k, len, cur, curC, hookVars, trace, present, emitted, ret>>
  /\ UNCHANGED dispatchVars
  /\ UNCHANGED queryVars
  /\ UNCHANGED constructVars

\* createComponents is through with the indices below the length it read (at
\* once when the array was empty): this.createComponentsList = [], and
\* updateComponents enters this.forEach, which rebuilds the list
createComponentsDone ==
  /\ pc = "createPass"
  /\ i > len
  /\ pc' = "updatePass"
  /\ i' = 1
  /\ createComponentsList' = [createComponentsList EXCEPT ![cur] =
       IF len = 0 THEN @ ELSE <<>>]
  /\ componentsList' = [componentsList EXCEPT ![cur] = rebuilt(cur)]
  /\ componentsListDirty' = [componentsListDirty EXCEPT ![cur] = FALSE]
  /\ UNCHANGED <<entities, nextEntity, componentsMap, currentEntity, instVars,
                 sig, k, len, cur, curC, hookVars, trace, present, emitted, ret>>
  /\ UNCHANGED dispatchVars
  /\ UNCHANGED queryVars
  /\ UNCHANGED constructVars

\* ComponentSystem.forEach of updateComponents at index i: the length and the
\* element are read from this.componentsList; update(time, delta) is called
updateComponentsCallback ==
  /\ pc = "updatePass"
  /\ i <= Len(componentsList[cur])
  /\ pc' = "inUpdatePass"
  /\ curC' = componentsList[cur][i]
  /\ updated' = [updated EXCEPT ![componentsList[cur][i]] = TRUE]
  /\ trace' = Append(trace, <<"update", componentsList[cur][i]>>)
  /\ UNCHANGED <<entities, nextEntity, listVars, createComponentsList, currentEntity,
                 instVars, sig, k, len, i, cur, nCreate, nDestroy, present, emitted, ret>>
  /\ UNCHANGED dispatchVars
  /\ UNCHANGED queryVars
  /\ UNCHANGED constructVars

\* update() returns into ComponentSystem.forEach
updateReturn ==
  /\ pc = "inUpdatePass"
  /\ pc' = "updatePass"
  /\ i' = i + 1
  /\ UNCHANGED <<entities, nextEntity, listVars, createComponentsList, currentEntity,
                 instVars, sig, k, len, cur, curC, hookVars, trace, present, emitted, ret>>
  /\ UNCHANGED dispatchVars
  /\ UNCHANGED queryVars
  /\ UNCHANGED constructVars

\* ComponentSystem.forEach has passed the end of the list: Entity.update returns
updateComponentsDone ==
  /\ pc = "updatePass"
  /\ i > Len(componentsList[cur])
  /\ pc' = "done"
  /\ sig' = "none" /\ k' = 0 /\ len' = 0 /\ i' = 0 /\ cur' = 0 /\ curC' = 0
  /\ UNCHANGED <<entities, nextEntity, listVars, createComponentsList, currentEntity,
                 instVars, hookVars, trace, present, emitted, ret>>
  /\ UNCHANGED dispatchVars
  /\ UNCHANGED queryVars
  /\ UNCHANGED constructVars

\* the program whose entities dispatch 'update' themselves, with hooks that add
\* components
NextEntityUpdateHooks ==
  \/ Create
  \/ \E e \in EntityIds, ctor \in Ctors : Add(e, ctor)
  \/ \E e \in EntityIds : updateComponents(e)
  \/ createComponentsCallback
  \/ createReturn
  \/ createComponentsDone
  \/ updateComponentsCallback
  \/ updateReturn
  \/ updateComponentsDone
  \/ \E e \in EntityIds, ctor \in Ctors : HookAdd(e, ctor)
  \/ Settle

SpecEntityUpdateHooks == Init /\ [][NextEntityUpdateHooks]_vars

TypeOK ==
  /\ pc \in {"idle", "done", "inCreate", "inHook", "inCtor",
             "createPass", "inCreatePass", "updatePass", "inUpdatePass"}
  /\ Len(constructing) <= MaxNesting
  /\ currentEntity \in 0..MaxEntities
  /\ nextEntity \in 0..MaxEntities
  /\ nextInstance \in 0..(MaxInstances + MaxHookInstances)
  /\ hookOps \in 0..MaxHookOps
  /\ Range(entities) \subseteq 1..nextEntity

\* ------------------------------------------------------ notions of the claims
\* the instances attached to entity e: the values of its type-to-instance map
Attached(e) == {componentsMap[e][n].instance : n \in 1..Len(componentsMap[e])}

\* the instances attached to a tracked entity
AttachedTracked == UNION {Attached(e) : e \in Range(entities)}

\* the positions of the hook calls of kind h on instance c in the running or
\* last operation
Calls(h, c) == {n \in 1..Len(trace) : trace[n] = <<h, c>>}

\* an update dispatch has returned, normally or by throwing
UpdateReturned == pc = "done" /\ ret.op = "update"

C3_PriorityOrder ==
  \A m, n \in 1..Len(trace) :
    /\ trace[m][1] = "update" /\ trace[n][1] = "update"
    /\ entityOf[trace[m][2]] = entityOf[trace[n][2]]
    /\ priority(ctorOf[trace[m][2]]) < priority(ctorOf[trace[n][2]])
    => m < n

\* -------------------------------------------------------------------- C4
\* C4: destroying a tracked entity (entity.destroy() or the entity system's
\* destroy(entity)) invokes destroy() on every component attached to it,
\* pending or created, exactly once each and in ascending priority order, and
\* afterwards the entity is not among the tracked entities a query runs over.
C4_DestroyPropagation ==
  [][ret'.op = "entity.destroy" /\ ret'.e \in Range(entities) =>
       /\ \A c \in Attached(ret'.e) :
            Cardinality({n \in 1..Len(trace') : trace'[n] = <<"destroy", c>>}) = 1
       /\ Len(trace') = Len(componentsMap[ret'.e])
       /\ \A m, n \in 1..Len(trace') :
            priority(ctorOf[trace'[m][2]]) < priority(ctorOf[trace'[n][2]]) => m < n
       /\ ret'.e \notin Range(entities')]_vars

\* -------------------------------------------------------------------- C5
\* C5: after the host emits destroy or shutdown, for any number of tracked
\* entities, the tracked entity set is empty and every component of every
\* previously tracked entity has had destroy() invoked exactly once.
C5_ScopeTeardown ==
  [][ret'.op \in {"destroy", "shutdown"} =>
       /\ entities' = <<>>
       /\ \A e \in Range(entities) : \A c \in Attached(e) :
            Cardinality({n \in 1..Len(trace') : trace'[n] = <<"destroy", c>>}) = 1]_vars

\* -------------------------------------------------------------------- C6
\* C6: destroy() is invoked at most once on any component instance, over any
\* sequence of remove, entity.destroy(), destroy(entity) and host destroy /
\* shutdown signals.
C6_DestroyAtMostOnce ==
  \A c \in InstanceIds : nDestroy[c] <= 1 /\ Cardinality(Calls("destroy", c)) <= 1

\* a host destroy / shutdown signal has destroyed a created and a pending
\* instance and left no entity tracked
C6_Witness ==
  /\ pc = "done" /\ ret.op \in {"destroy", "shutdown"}
  /\ \E c, d \in InstanceIds :
       nDestroy[c] = 1 /\ created[c] /\ nDestroy[d] = 1 /\ ~created[d] /\ nCreate[d] = 0
  /\ entities = <<>>

\* -------------------------------------------------------------------- C7
\* C7: add(T) raises DuplicateComponent exactly when T is already present on
\* the entity (a successful add(T) not followed by remove(T), clear() or the
\* entity's destruction); otherwise, so also after remove(T), it returns a new
\* instance, which is then the one attached.
C7_DuplicateAdd ==
  [][ret'.op = "add" =>
       /\ ret'.err = "DuplicateComponent" <=> present[ret'.e][ret'.ctor] # 0
       /\ ret'.err \in {"none", "DuplicateComponent"}
       /\ ret'.err = "DuplicateComponent" =>
            UNCHANGED <<componentsMap, createComponentsList, instVars>>
       /\ ret'.err = "none" =>
            /\ ret'.val = nextInstance + 1 /\ ret'.val \notin AttachedTracked
            /\ ctorOf'[ret'.val] = ret'.ctor
            /\ ret'.val \in {componentsMap'[ret'.e][n].instance :
                               n \in 1..Len(componentsMap'[ret'.e])}]_vars

\* add(T) has returned a second instance of T on an entity whose first instance
\* of T was removed
C7_Witness ==
  /\ pc = "done" /\ ret.op = "add" /\ ret.err = "none"
  /\ \E c \in InstanceIds :
       c # ret.val /\ ctorOf[c] = ret.ctor /\ entityOf[c] = ret.e /\ c \notin Attached(ret.e)

\* -------------------------------------------------------------------- C8
\* C8: has(T) is true iff the most recent successful add(T) has not been
\* followed by remove(T), clear() or the entity's destruction; get(T) raises
\* ComponentNotFound iff has(T) is false and otherwise returns the instance of
\* that add; find(T) returns that instance or the absent value.
C8_LookupConsistency ==
  \A e \in EntityIds, ctor \in Ctors :
    /\ has(e, ctor) <=> present[e][ctor] # 0
    /\ get(e, ctor).err = "ComponentNotFound" <=> ~has(e, ctor)
    /\ get(e, ctor).err \in {"none", "ComponentNotFound"}
    /\ has(e, ctor) => get(e, ctor).val = present[e][ctor]
    /\ find(e, ctor) = present[e][ctor]

\* clear() has emptied an entity that had a component while the other entity
\* keeps one
C8_Witness ==
  /\ pc = "done" /\ ret.op = "clear"
  /\ \E c \in InstanceIds : entityOf[c] = ret.e /\ ctorOf[c] # "none"
  /\ \E e \in Range(entities), ctor \in Ctors : e # ret.e /\ has(e, ctor)

\* -------------------------------------------------------------------- C9
\* C9: add(X) never raises because a required class is missing; an update
\* dispatch raises MissingRequiredComponent iff a required class of a pending
\* instance is absent from its entity at the moment its create() would run:
\* the instance the error names is pending, has had no create() and lacks a
\* required class, and every create() that ran found all required classes
\* present.
C9_RequiredAtCreation ==
  /\ ret.op = "add" => ret.err \in {"none", "DuplicateComponent"}
  /\ ret.op # "update" => ret.err # "MissingRequiredComponent"
  /\ ret.err = "MissingRequiredComponent" =>
       /\ ~created[ret.val] /\ nCreate[ret.val] = 0
       /\ \E r \in required(ctorOf[ret.val]) : present[entityOf[ret.val]][r] = 0
  /\ \A c \in InstanceIds : Calls("create", c) # {} =>
       \A r \in required(ctorOf[c]) : present[entityOf[c]][r] # 0
  /\ UpdateReturned /\ ret.err = "none" => \A c \in AttachedTracked : created[c]

\* X was added before the class it requires, and the update dispatch after both
\* adds has created it and returned normally
C9_Witness ==
  /\ UpdateReturned /\ ret.err = "none"
  /\ \E x, a \in AttachedTracked :
       /\ x < a /\ ctorOf[x] = "X" /\ ctorOf[a] = "A" /\ entityOf[x] = entityOf[a]
       /\ Calls("create", x) # {}

\* ------------------------------------------------------------------- C10
\* C10: remove(T) of a component whose create() has run invokes destroy() on
\* that instance exactly once, inside the remove call.
C10_RemoveDestroys ==
  pc = "done" /\ ret.op = "remove" /\ ret.val # 0 /\ created[ret.val] =>
    nDestroy[ret.val] = 1 /\ Cardinality(Calls("destroy", ret.val)) = 1

\* ------------------------------------------------------------------- C11
\* C11: a component removed while still pending never has create() and never
\* has destroy() invoked on it, under any later sequence of host signals: an
\* instance that is not attached to a tracked entity gets no create() and no
\* destroy() call in any step and is never attached again, and an instance
\* that left its entity while pending has had no create() call.
C11_RemovedPendingNoHooks ==
  /\ [][\A c \in InstanceIds :
          ctorOf[c] # "none" /\ c \notin AttachedTracked =>
            /\ nCreate'[c] <= nCreate[c] /\ nDestroy'[c] <= nDestroy[c]
            /\ \A n \in 1..Len(trace') : trace'[n][2] = c => n <= Len(trace) /\ trace[n] = trace'[n]
            /\ c \notin UNION {{componentsMap'[e][n].instance : n \in 1..Len(componentsMap'[e])} :
                                 e \in EntityIds}]_vars
  /\ [](\A c \in InstanceIds : ~created[c] /\ c \notin AttachedTracked =>
          nCreate[c] = 0 /\ Calls("create", c) = {})

\* an update dispatch has returned on an entity from which a pending instance
\* was removed after a signal had put it into the cached list
C11_Witness ==
  /\ UpdateReturned
  /\ \E c \in InstanceIds :
       /\ ctorOf[c] # "none" /\ entityOf[c] \in Range(entities)
       /\ c \notin AttachedTracked /\ c \notin Range(createComponentsList[entityOf[c]])
       /\ ~created[c] /\ nCreate[c] = 0 /\ nDestroy[c] = 0
       /\ \E d \in Attached(entityOf[c]) : Calls("update", d) # {}

\* ------------------------------------------------------------------- C12
\* C12: destroy() on an entity that is no longer tracked raises no error,
\* invokes no component hook, emits no 'destroy' event and leaves the tracked
\* entities (and every component system) unchanged.
C12_DestroyIdempotent ==
  [][ret'.op = "entity.destroy" /\ ret'.e \notin Range(entities) =>
       /\ ret'.err = "none"
       /\ trace' = <<>> /\ emitted' = <<>>
       /\ UNCHANGED <<entities, listVars, createComponentsList, instVars, hookVars, present>>]_vars

\* destroy() has returned for an entity destroyed before, while another entity
\* is tracked and has a component
C12_Witness ==
  /\ pc = "done" /\ ret.op = "entity.destroy" /\ emitted = <<>>
  /\ ret.e \in 1..nextEntity /\ ret.e \notin Range(entities)
  /\ AttachedTracked # {}

\* ------------------------------------------------------------------- C13
\* C13: remove(T) for a class T absent from the entity is a no-op: a remove
\* step takes an instance out only if that instance is the one attached for T,
\* and otherwise it raises no error, emits no 'remove' event and leaves the map,
\* the pending-creation queue and the ordered view (list and dirty flag)
\* unchanged.
C13_RemoveAbsentNoop ==
  [][ret'.op = "remove" =>
       /\ ret'.err = "none"
       /\ ret'.val # 0 => present[ret'.e][ret'.ctor] = ret'.val
       /\ ret'.val = 0 =>
            /\ emitted' = <<>> /\ trace' = <<>>
            /\ UNCHANGED <<entities, listVars, createComponentsList, instVars, hookVars,
                           present>>]_vars

\* remove of an absent class has returned on a state with a tracked entity whose
\* ordered view is cached and whose queue is not empty
C13_Witness ==
  /\ pc = "done" /\ ret.op = "remove" /\ ret.val = 0
  /\ \E e \in Range(entities) :
       ~componentsListDirty[e] /\ componentsList[e] # <<>> /\ createComponentsList[e] # <<>>

\* ------------------------------------------------------------------- C14
\* C14: within one update dispatch on an entity all pending creations run
\* before any update() of that dispatch: no update() is invoked between two
\* create() invocations on components of the same entity.
C14_CreatesBeforeUpdates ==
  \A m, n \in 1..Len(trace) :
    /\ trace[m][1] = "update" /\ trace[n][1] = "create"
    /\ entityOf[trace[m][2]] = entityOf[trace[n][2]]
    => n < m

\* ------------------------------------------------------------------- C15
\* C15: a host sleep, wake, pause or resume signal invokes the same-named hook
\* exactly once on every component of every tracked entity, pending or created,
\* in ascending priority order within an entity, invokes no create() and
\* leaves every component pending or created as it was.
C15_PassiveSignals ==
  pc = "done" /\ ret.op \in {"sleep", "wake", "pause", "resume"} =>
    /\ ret.err = "none"
    /\ \A c \in AttachedTracked : Cardinality(Calls(ret.op, c)) = 1
    /\ \A n \in 1..Len(trace) : trace[n][1] = ret.op /\ trace[n][2] \in AttachedTracked
    /\ \A c \in AttachedTracked : created[c] <=> nCreate[c] = 1
    /\ \A m, n \in 1..Len(trace) :
         /\ entityOf[trace[m][2]] = entityOf[trace[n][2]]
         /\ priority(ctorOf[trace[m][2]]) < priority(ctorOf[trace[n][2]])
         => m < n

\* ------------------------------------------------------------------- C16
\* C16: for every host update signal that is not aborted by an error, each
\* component attached to a tracked entity before the signal and still attached
\* after it has update() invoked exactly once, also when hooks running during
\* the dispatch add or remove other components or read all().
C16_UpdateOncePerSignal ==
  UpdateReturned /\ ret.err = "none" =>
    \A c \in attachedBefore \cap AttachedTracked : Cardinality(Calls("update", c)) = 1


\* ------------------------------------------------------- query claim notions
\* the component types entity e has
Types(e) == {ctorOf[c] : c \in Attached(e)}

\* e has every type listed in ctors
HasAll(e, ctors) == Range(ctors) \subseteq Types(e)

\* the ordered tuple of e's instances of the listed types (e has them all)
Tuple(e, ctors) ==
  [j \in 1..Len(ctors) |-> CHOOSE c \in Attached(e) : ctorOf[c] = ctors[j]]

\* the predicate of condition cond returns true for e's instances
PredicateTrue(cond, e) == \A j \in 1..Len(cond.ctors) : Tuple(e, cond.ctors)[j] \in cond.where.set

\* a terminal operation of the query has returned
QueryReturned ==
  pc = "done" /\ ret.op \in {"query.all", "query.first", "query.count", "query.exists"}

\* the terminal operation that returned answered as a query keeping exactly the
\* entities of the sequence K
Answers(K) ==
  /\ ret.op = "query.all" => result = K
  /\ ret.op = "query.first" => result = IF K = <<>> THEN <<>> ELSE <<K[1]>>
  /\ ret.op = "query.count" => ret.val = Len(K)
  /\ ret.op = "query.exists" => ret.val = IF K = <<>> THEN 0 ELSE 1

\* the query that returned was one condition of the given kind
OneCondition(kind) == QueryReturned /\ Len(asked) = 1 /\ asked[1].kind = kind

\* ------------------------------------------------------------------- C17
\* C17: a query of one with(T) or with([T1..Tn]) condition keeps exactly the
\* tracked entities that have every listed type and, when a predicate was
\* given, for whose instance (or ordered tuple of instances) the predicate
\* returns true; the predicate is never evaluated for an entity missing a
\* listed type.
C17_With ==
  OneCondition("with") =>
    /\ Answers(SelectSeq(entities,
         LAMBDA e : /\ HasAll(e, asked[1].ctors)
                    /\ asked[1].where.has => PredicateTrue(asked[1], e)))
    /\ \A p \in evaluated : HasAll(p[2], asked[1].ctors)

\* a with([A, B], predicate) query over two entities has returned the one that
\* has A and B, having evaluated the predicate for it and not for the other
C17_Witness ==
  /\ OneCondition("with")
  /\ ret.op = "query.all"
  /\ asked[1].ctors = <<"A", "B">>
  /\ asked[1].where.has
  /\ Len(entities) = 2
  /\ Len(result) = 1
  /\ HasAll(result[1], <<"A", "B">>)
  /\ evaluated = {<<1, result[1]>>}

\* ------------------------------------------------------------------- C18
\* C18: a query of one without(T) condition keeps exactly the tracked entities
\* that lack T; with a predicate, without(T, predicate) excludes exactly the
\* entities that have T and for which the predicate returns true, keeping the
\* entities that lack T and those that have T with a false predicate.
C18_WithoutSingle ==
  OneCondition("without") /\ Len(asked[1].ctors) = 1 =>
    Answers(SelectSeq(entities,
      LAMBDA e : ~(/\ HasAll(e, asked[1].ctors)
                   /\ asked[1].where.has => PredicateTrue(asked[1], e))))

\* a without(A, predicate) query over two entities that both have A has
\* returned the one for which the predicate is false
C18_Witness ==
  /\ OneCondition("without")
  /\ ret.op = "query.all"
  /\ asked[1].ctors = <<"A">>
  /\ asked[1].where.has
  /\ Len(entities) = 2
  /\ \A e \in Range(entities) : HasAll(e, <<"A">>)
  /\ Len(result) = 1
  /\ ~PredicateTrue(asked[1], result[1])

\* ------------------------------------------------------------------- C19
\* C19: a query of one without([T1..Tn], predicate) condition excludes exactly
\* the tracked entities that have every listed type and for which the predicate
\* over the ordered tuple of instances is true; an entity missing a listed type
\* is kept and the predicate is not evaluated for it.
C19_WithoutMultipleWhere ==
  OneCondition("without") /\ Len(asked[1].ctors) > 1 /\ asked[1].where.has =>
    /\ Answers(SelectSeq(entities,
         LAMBDA e : ~(HasAll(e, asked[1].ctors) /\ PredicateTrue(asked[1], e))))
    /\ \A p \in evaluated : HasAll(p[2], asked[1].ctors)

\* a without([A, B], predicate) query over an entity with A and B and a true
\* predicate, and an entity with neither, has returned the second only and
\* evaluated the predicate for the first only
C19_Witness ==
  /\ OneCondition("without")
  /\ ret.op = "query.all"
  /\ asked[1].ctors = <<"A", "B">>
  /\ asked[1].where.has
  /\ Len(entities) = 2
  /\ Len(result) = 1
  /\ Types(result[1]) = {}
  /\ \E e \in Range(entities) :
       /\ HasAll(e, <<"A", "B">>)
       /\ PredicateTrue(asked[1], e)
       /\ evaluated = {<<1, e>>}

\* ------------------------------------------------------------------- C20
\* C20: a query of one without([T1..Tn]) condition with no predicate returns
\* exactly the tracked entities that have none of the listed types.
C20_WithoutMultiple ==
  OneCondition("without") /\ Len(asked[1].ctors) > 1 /\ ~asked[1].where.has =>
    Answers(SelectSeq(entities, LAMBDA e : Range(asked[1].ctors) \cap Types(e) = {}))

\* ------------------------------------------------------------------- C21
\* C21: chained conditions compose with AND: a terminal operation returns
\* exactly the tracked entities that satisfy every condition the chain
\* accumulated, each condition being what with / without made of its arguments;
\* with no condition it returns every tracked entity.
C21_ChainIsConjunction ==
  QueryReturned =>
    /\ Answers(SelectSeq(entities,
         LAMBDA e : \A j \in 1..Len(asked) : Condition(asked[j], e)))
    /\ asked = <<>> => Answers(entities)

\* a chain of a with and a without condition over two entities has returned
\* one of them, the other satisfying the first condition and not the second
C21_Witness ==
  /\ QueryReturned
  /\ ret.op = "query.all"
  /\ Len(asked) = 2
  /\ asked[1].kind = "with"
  /\ asked[2].kind = "without"
  /\ Len(entities) = 2
  /\ Len(result) = 1
  /\ \E e \in Range(entities) :
       /\ e # result[1]
       /\ Condition(asked[1], e)
       /\ ~Condition(asked[2], e)

\* a terminal operation on a query without conditions has returned both
\* tracked entities
C21_WitnessNoConditions ==
  /\ QueryReturned
  /\ ret.op = "query.all"
  /\ asked = <<>>
  /\ Len(result) = 2

\* ------------------------------------------------------------------- C22
\* C22: every terminal operation (first, all, count, exists) leaves the
\* query with an empty condition list when it returns, and the list only
\* changes otherwise by with / without appending one condition, so the next
\* query is constrained only by the conditions added after the terminal
\* operation.
C22_TerminalResets ==
  [][/\ QueryReturned' => conditions' = <<>>
     /\ (~QueryReturned' /\ conditions' # conditions) =>
          /\ ret'.op \in {"with", "without"}
          /\ Len(conditions') = Len(conditions) + 1
          /\ SubSeq(conditions', 1, Len(conditions)) = conditions]_vars

\* a terminal operation has returned for a chain of two conditions and the
\* condition list is empty
C22_Witness ==
  /\ QueryReturned
  /\ Len(asked) = 2
  /\ conditions = <<>>
  /\ result # <<>>

\* ------------------------------------------------------------------- C23
\* C23: each read of the entity system's query entry point yields a fresh
\* evaluator: the conditions pushed before the latest read, by a chain that
\* never ran a terminal operation, do not constrain the result of the query
\* built after it, which is that of the conditions pushed since.
C23_FreshQuery ==
  QueryReturned =>
    Answers(SelectSeq(entities,
      LAMBDA e : \A j \in (inherited + 1)..Len(asked) : Condition(asked[j], e)))

\* ------------------------------------------------------------------- C24
\* the list all() returns for the conditions conds on the tracked entities
AllWouldReturn(conds) ==
  SelectSeq(entities, LAMBDA e : \A j \in 1..Len(conds) : Condition(conds[j], e))

\* the entity created first among those of the sequence K (K is not empty)
EarliestCreated(K) == CHOOSE e \in Range(K) : \A f \in Range(K) : e <= f

\* C24: for any tracked entities and accumulated conditions, count() equals
\* the length of the list all() would return, exists() is true iff first()
\* would return an entity, and first() returns the earliest-created matching
\* entity, which is the first element of all(), or nothing when no entity
\* matches.
C24_TerminalsAgree ==
  QueryReturned =>
    /\ ret.op = "query.count" => ret.val = Len(AllWouldReturn(asked))
    /\ ret.op = "query.exists" => (ret.val = 1 <=> AllWouldReturn(asked) # <<>>)
    /\ ret.op = "query.first" =>
         IF AllWouldReturn(asked) = <<>> THEN result = <<>>
         ELSE /\ result = <<AllWouldReturn(asked)[1]>>
              /\ result[1] = EarliestCreated(AllWouldReturn(asked))

\* first() has returned the earlier created of two matching entities
C24_Witness ==
  /\ QueryReturned
  /\ ret.op = "query.first"
  /\ asked # <<>>
  /\ Len(AllWouldReturn(asked)) = 2
  /\ result = <<1>>

\* ------------------------------------------------------------------- C25
\* no two positions of the sequence of instances s hold the same component type
OnePerType(s) ==
  \A m, n \in 1..Len(s) : m # n => ctorOf[s[m]] # ctorOf[s[n]]

\* the instances of the registry map of e, in the order of the map
MapInstances(e) == [n \in 1..Len(componentsMap[e]) |-> componentsMap[e][n].instance]

\* C25: in every reachable state each tracked entity holds at most one live
\* instance per component type: neither the registry map, nor the ordered view
\* all() returns, nor the pending-creation queue contains two instances of the
\* same type.
C25_OneInstancePerType ==
  \A e \in Range(entities) :
    /\ OnePerType(MapInstances(e))
    /\ OnePerType(rebuilt(e))
    /\ OnePerType(createComponentsList[e])

\* ------------------------------------------------------------------- C26
\* what the owning-entity accessor of the attached instance c yields
OwningEntity(c) == entityGetter(entityOf[c], currentEntity)

\* every instance attached to a tracked entity yields that entity
AttachedYieldOwner ==
  \A e \in Range(entities) : \A c \in Attached(e) : OwningEntity(c) = e

\* C26 as stated: while a component's constructor runs under add() on entity
\* E, and at every time after that add() returned, the owning-entity accessor
\* of the component yields E.
C26_OwningEntity_AsStated ==
  /\ \A r \in reads : r.yielded = r.owner
  /\ AttachedYieldOwner

\* C26, amended: the accessor yields E in the constructor as long as the
\* constructor has not itself called an add() that returned (after which it
\* raises), and it yields E at every time after the add() on E returned,
\* whatever is added to other entities in between.
C26_OwningEntity ==
  /\ \A r \in reads : ~r.nested => r.yielded = r.owner
  /\ \A r \in reads : r.nested => r.yielded = 0
  /\ AttachedYieldOwner

\* an add on entity 2 whose constructor has read this.entity has returned while
\* entity 1 holds a component added before
C26_Witness ==
  /\ pc = "done"
  /\ ret.op = "add"
  /\ ret.err = "none"
  /\ ret.e = 2
  /\ [owner |-> 2, yielded |-> 2, nested |-> FALSE] \in reads
  /\ Attached(1) # {}
  /\ Attached(2) # {}

\* ------------------------------------------------------------------- C27
\* C27: constructor arguments are forwarded: when add(T, a1, ..., an) returns,
\* the field the constructor of T set from its first positional parameter
\* holds a1 (undefined when no argument was given).
C27_ArgumentsForwarded ==
  [][(pc = "inCtor" /\ nextInstance' = nextInstance + 1) =>
       LET args == constructing[Len(constructing)].args
       IN field'[nextInstance'] = IF args = <<>> THEN Undefined ELSE String(args[1])]_vars

\* ------------------------------------------------------------------- C28
\* C28: the construction-context slot is set only while a component is being
\* constructed: whenever no constructor is executing the slot is empty, which
\* holds after every add() call, whether it returned an instance or raised
\* (duplicate type, or a constructor that throws).
C28_ContextCleared ==
  constructing = <<>> => currentEntity = 0

\* ------------------------------------------------------------------- C29
\* the instances that received create() or update() in the last operation
Dispatched == {c \in InstanceIds : Calls("create", c) \cup Calls("update", c) # {}}

\* C29: clear() empties the registry completely: when it has returned, has(T)
\* is false for every T and all() is empty (so that add(T) succeeds for any
\* T), and on every later update dispatch no component that was attached
\* before the clear() and is not attached any more receives create() or
\* update().
C29_ClearEmpties ==
  /\ pc = "done" /\ ret.op = "clear" =>
       /\ \A ctor \in Ctors : ~has(ret.e, ctor)
       /\ rebuilt(ret.e) = <<>>
  /\ pc = "done" /\ ret.op \in {"update", "entity.update"} =>
       Dispatched \subseteq AttachedTracked

\* ------------------------------------------------------------------- C30
\* instance c was added before instance d (instances are numbered as add
\* constructs them)
AddedBefore(c, d) == c < d

\* C30: ordering is a stable sort by ascending priority: components of one
\* entity with equal priority appear in all(), and are dispatched, in the
\* order they were added, so that a component removed and added again comes
\* after the components of equal priority that stayed attached.
C30_StableOrder ==
  /\ \A e \in Range(entities) :
       \A m, n \in 1..Len(rebuilt(e)) :
         /\ priority(ctorOf[rebuilt(e)[m]]) = priority(ctorOf[rebuilt(e)[n]])
         /\ AddedBefore(rebuilt(e)[m], rebuilt(e)[n])
         => m < n
  /\ \A m, n \in 1..Len(trace) :
       /\ trace[m][1] = trace[n][1]
       /\ entityOf[trace[m][2]] = entityOf[trace[n][2]]
       /\ priority(ctorOf[trace[m][2]]) = priority(ctorOf[trace[n][2]])
       /\ AddedBefore(trace[m][2], trace[n][2])
       => m < n

\* ------------------------------------------------------------------- C31
\* all() of every tracked entity covers exactly the instances of its map, each
\* once
ViewCoversMap ==
  \A e \in Range(entities) :
    /\ Range(rebuilt(e)) = Attached(e)
    /\ Len(rebuilt(e)) = Cardinality(Attached(e))

\* a dispatch that has returned without error called its hook once on every
\* instance of the maps and on no other instance
DispatchCoversMap ==
  (pc = "done" /\ ret.op \in HookSignals /\ ret.err = "none") =>
    /\ \A c \in AttachedTracked : Cardinality(Calls(ret.op, c)) = 1
    /\ \A n \in 1..Len(trace) : trace[n][2] \in AttachedTracked

\* C31: after any sequence of add, remove and clear, all() and every dispatch
\* that follows cover exactly the instances currently stored in the map, each
\* exactly once and none that was removed; every add and every remove that
\* changes the map invalidates the cached ordered view.
C31_ViewConsistent ==
  /\ [](ViewCoversMap /\ DispatchCoversMap)
  /\ [][(pc = "idle" /\ ret'.op \in {"add", "remove"} /\ ret'.err = "none" /\ ret'.e # 0)
          => componentsListDirty'[ret'.e]]_vars

\* an update dispatch has returned and called update() on the one component of
\* an entity, an instance constructed earlier having been removed or cleared
C31_Witness ==
  /\ pc = "done" /\ ret.op = "update" /\ ret.err = "none"
  /\ \E e \in Range(entities) :
       /\ Cardinality(Attached(e)) = 1
       /\ \E c \in InstanceIds : c \notin Attached(e) /\ entityOf[c] = 0 /\ c < nextInstance
       /\ \A c \in Attached(e) : Calls("update", c) # {}

\* ------------------------------------------------------------------- C32
\* C32: pending creations run in FIFO insertion order: when several
\* components are pending on an entity, an update dispatch invokes their
\* create() hooks in the order the components were added, whatever their
\* priorities.
C32_CreateFifo ==
  \A m, n \in 1..Len(trace) :
    /\ trace[m][1] = "create" /\ trace[n][1] = "create"
    /\ entityOf[trace[m][2]] = entityOf[trace[n][2]]
    /\ AddedBefore(trace[m][2], trace[n][2])
    => m < n

\* ------------------------------------------------------------------- C33
\* the position of instance c in the list all() returns for its entity
PositionInView(c) == IndexOf(rebuilt(entityOf[c]), c)

\* instance c is ordered before instance x in a dispatch: on an entity tracked
\* before that of x, or on the same entity before x in its ordered view
OrderedBefore(c, x) ==
  \/ IndexOf(entities, entityOf[c]) < IndexOf(entities, entityOf[x])
  \/ entityOf[c] = entityOf[x] /\ PositionInView(c) < PositionInView(x)

\* C33: when the required check fails for a pending component X during an
\* update dispatch, the error reaches the caller of the dispatch, X.create()
\* and X.update() are not invoked, no component or entity ordered after X
\* receives a hook in that dispatch, the effects of the hooks already run for
\* the components before X are kept, and X is still pending afterwards.
C33_RequiredFailureAborts ==
  (UpdateReturned /\ ret.err = "MissingRequiredComponent") =>
    /\ ret.val \in AttachedTracked
    /\ \A n \in 1..Len(trace) : trace[n][2] # ret.val /\ OrderedBefore(trace[n][2], ret.val)
    /\ \A c \in AttachedTracked : OrderedBefore(c, ret.val) =>
         /\ Cardinality(Calls("update", c)) = 1
         /\ created[c] /\ updated[c] /\ nCreate[c] = 1
    /\ ~created[ret.val] /\ nCreate[ret.val] = 0

\* an update dispatch has raised MissingRequiredComponent for X after create()
\* and update() ran on a component ordered before it
C33_Witness ==
  /\ UpdateReturned /\ ret.err = "MissingRequiredComponent"
  /\ ctorOf[ret.val] = "X"
  /\ \E c \in AttachedTracked :
       /\ OrderedBefore(c, ret.val)
       /\ Calls("create", c) # {} /\ Calls("update", c) # {}

\* ------------------------------------------------------------------- C34
\* C34: a failed add leaves the registry unchanged: in the step in which
\* add(T) raises DuplicateComponent no constructor is started and no instance
\* made, get(T) returns the same instance as before on every entity, the
\* pending-creation queue, the ordered view and the construction context are
\* unchanged, and no 'add' observation is signalled.
C34_FailedAddFrame ==
  [][(ret'.op = "add" /\ ret'.err = "DuplicateComponent" /\ pc # "done") =>
       /\ Len(constructing') <= Len(constructing)
       /\ UNCHANGED <<instVars, field>>
       /\ \A e \in EntityIds, ctor \in Ctors : get(e, ctor)' = get(e, ctor)
       /\ UNCHANGED <<componentsMap, createComponentsList, componentsList, componentsListDirty>>
       /\ UNCHANGED currentEntity
       /\ emitted' = emitted]_vars

\* add(T) has raised DuplicateComponent while the construction context named
\* an entity (a constructor was running, or an earlier one had thrown)
C34_Witness ==
  /\ pc = "done" /\ ret.op = "add" /\ ret.err = "DuplicateComponent"
  /\ currentEntity = ret.e
  /\ \E e \in Range(entities), ctor \in ConstructCtors : has(e, ctor)

\* add(T) has raised DuplicateComponent for a call made outside any constructor
C34_WitnessTopLevel ==
  /\ pc = "done" /\ ret.op = "add" /\ ret.err = "DuplicateComponent"
  /\ has(ret.e, ret.ctor)

\* ------------------------------------------------------------------- C35
\* C35: nested construction is the failure case of the ambient context: when a
\* constructor running under add() on entity E1 itself calls add(), then once
\* the inner add() has returned the construction-context slot is empty instead
\* of E1, and a later read of the owning entity inside the outer constructor
\* raises the error of the getter.
C35_NestedConstruction ==
  /\ [][(pc = "inCtor" /\ pc' = "inCtor" /\ Len(constructing') < Len(constructing)) =>
          /\ currentEntity' = 0
          /\ constructing'[Len(constructing')].nested]_vars
  /\ [](\A r \in reads : r.nested => r.yielded = 0 /\ ret.err = "NoEntitySet")
  /\ [](\A n \in 1..Len(constructing) :
          (constructing[n].nested /\ n = Len(constructing)) => currentEntity = 0)

\* a constructor running under add() on entity 1 has called an add() that
\* returned, has then read this.entity, and the outer add has raised
C35_Witness ==
  /\ pc = "done" /\ ret.op = "add" /\ ret.err = "NoEntitySet" /\ ret.e = 1
  /\ [owner |-> 1, yielded |-> 0, nested |-> TRUE] \in reads
  /\ AttachedTracked # {}

\* ------------------------------------------------------------------- C36
\* the hooks a dispatch invokes
LifecycleHooks == {"create"} \cup HookSignals

\* the hook calls on instance c the step adds to the trace
NewCalls(c) ==
  {n \in 1..Len(trace') :
     /\ n > (IF pc = "idle" THEN 0 ELSE Len(trace))
     /\ trace'[n][2] = c /\ trace'[n][1] \in LifecycleHooks}

\* C36: destroyed is terminal: once destroy() has been invoked on a component
\* instance, none of create, update, sleep, wake, pause or resume is invoked on
\* it again, also when the destruction was triggered from a hook in the middle
\* of a dispatch.
C36_DestroyedIsTerminal ==
  [][\A c \in InstanceIds : nDestroy[c] > 0 => NewCalls(c) = {}]_vars

\* ------------------------------------------------------------------- C39
\* the instances of the entities tracked before the signal and still tracked
\* when it has returned
SurvivingInstances == {c \in attachedBefore : entityOf[c] \in Range(entities)}

\* C39: for every host update, sleep, wake, pause or resume signal, every
\* entity tracked before the signal and not destroyed during it has its
\* components dispatched exactly once in that signal, also when a hook destroys
\* another entity while the dispatch is in progress.
C39_EntitiesDispatchedOnce ==
  (pc = "done" /\ ret.op \in HookSignals /\ ret.err = "none") =>
    \A c \in SurvivingInstances : Cardinality(Calls(ret.op, c)) = 1

\* ------------------------------------------------------------------- C37
\* the instances a hook has added since the update dispatch in progress (or
\* just returned) began
AddedInDispatch ==
  IF pc # "idle" /\ ret.op \in {"update", "entity.update"}
    THEN {c \in InstanceIds : entityOf[c] # 0 /\ c \notin attachedBefore}
    ELSE {}

\* C37: a component added by a hook while its entity's update dispatch is in
\* progress is not lost from pending creation: its create() is invoked
\* exactly once, and always before the first update() invoked on it.
C37_HookAddedCreated ==
  \A c \in AddedInDispatch : nCreate[c] <= 1 /\ (updated[c] => nCreate[c] = 1)

\* ------------------------------------------------------------------- C38
\* the instances remove has taken out of the map of their entity, which is
\* still tracked
RemovedInstances ==
  {c \in InstanceIds :
     /\ ctorOf[c] # "none"
     /\ entityOf[c] \in Range(entities)
     /\ c \notin Attached(entityOf[c])}

\* C38: once remove(T) has returned, the removed instance receives no further
\* lifecycle hook, also when remove(T) is called by another component's hook
\* in the middle of a dispatch that has not yet reached T.
C38_RemovedGetsNoHook ==
  [][\A c \in RemovedInstances : NewCalls(c) = {}]_vars

====
